---- MODULE Spec2Model ----
(***************************************************************************)
(* Model of jbalsamo/gptapi: the token-bucket RateLimiter                   *)
(* (src/src/libraries/rateLimiter.js), the provider helpers that acquire    *)
(* from it (src/src/libraries/azureHelpers.ts) and findSimilarAnswers       *)
(* (src/src/index.ts).                                                      *)
(*                                                                          *)
(* Node runs one JavaScript task at a time, so every action below is one    *)
(* synchronous run of code between two suspension points (an await on a     *)
(* timer or on a network response).                                         *)
(*                                                                          *)
(* Time is counted in units of waitTime granularity: a limiter is built     *)
(* with tokensPerInterval = n and intervalInMs = n * k, so that             *)
(* waitTime = intervalInMs / tokensPerInterval = k is a whole number.       *)
(***************************************************************************)
EXTENDS Integers, Sequences, FiniteSets, TLC

VARIABLES
  now,               \* Date.now()
  tokensPerInterval, \* per limiter: this.tokensPerInterval
  intervalInMs,      \* per limiter: this.intervalInMs
  tokens,            \* per limiter: this.tokens
  lastRefill,        \* per limiter: this.lastRefill
  pc,                \* per caller: where its call stands
  kind,              \* per caller: "none", "raw" (a bare provider call) or "find"
  chan,              \* per caller: the channel of its current waitForToken call
  wakeAt,            \* per caller: when its setTimeout is due
  completions,       \* per channel: the times at which waitForToken calls returned
  inv                \* per caller: the data of its findSimilarAnswers invocation

limiterVars == <<now, tokensPerInterval, intervalInMs, tokens, lastRefill>>
callerVars == <<pc, kind, chan, wakeAt, completions>>
vars == <<now, tokensPerInterval, intervalInMs, tokens, lastRefill,
          pc, kind, chan, wakeAt, completions, inv>>

----------------------------------------------------------------------------
(* Bounds of the model *)

\* callers of the limiter-only specification
NCallers == 4
\* bare provider calls running beside the findSimilarAnswers invocation
NTraffic == 1
\* the clock stops here
MaxTime == 2
\* limiters are built with tokensPerInterval in 1..MaxTokensPerInterval
MaxTokensPerInterval == 2
\* and waitTime in 1..MaxWaitTime
MaxWaitTime == 2

Callers == 1 .. NCallers
Channels == {"chatCompletions", "search"}

Min(a, b) == IF a <= b THEN a ELSE b
Max(a, b) == IF a >= b THEN a ELSE b

----------------------------------------------------------------------------
(* RateLimiter *)

\* the limiter instance behind a channel name: one instance per name
rateLimiters_Shared(ch) == "chatCompletions"
rateLimiters(ch) == ch

\* refillTokens with the Math.min dropped
refillTokens_NoCap(t, last, perInterval, interval, clock) ==
  LET timePassed == clock - last
      tokensToAdd == (timePassed \div interval) * perInterval
  IN  IF tokensToAdd > 0
      THEN [tokens |-> t + tokensToAdd, lastRefill |-> clock]
      ELSE [tokens |-> t, lastRefill |-> last]

\* RateLimiter.refillTokens: the bucket after the call
refillTokens(t, last, perInterval, interval, clock) ==
  LET timePassed == clock - last
      tokensToAdd == (timePassed \div interval) * perInterval
  IN  IF tokensToAdd > 0
      THEN [tokens |-> Min(perInterval, t + tokensToAdd), lastRefill |-> clock]
      ELSE [tokens |-> t, lastRefill |-> last]

\* this.refillTokens() on limiter b at the current time
Refilled(b) ==
  refillTokens(tokens[b], lastRefill[b], tokensPerInterval[b], intervalInMs[b], now)

\* a return that takes no token
debit_None(t) == t

\* this.tokens -= 1
debit(t) == t - 1

\* a wait of no length
waitTime_None(b) == 0

\* const waitTime = this.intervalInMs / this.tokensPerInterval
waitTime(b) == intervalInMs[b] \div tokensPerInterval[b]

\* a caller that sends the completion request after either acquire
AfterAcquire_ChatOnly(c, k, ch) ==
  IF k = "raw" THEN "acquired" ELSE "chat_inflight"

\* where a caller stands once its waitForToken call has returned
AfterAcquire(c, k, ch) ==
  IF k = "raw" THEN "acquired"
  ELSE IF ch = "search" THEN "search_inflight" ELSE "chat_inflight"

\* waitForToken up to its first suspension point: refill, check, and either
\* debit and return or start the timer
WaitForTokenCall(c, k, ch) ==
  LET b == rateLimiters(ch)
      r == Refilled(b)
  IN  /\ kind' = [kind EXCEPT ![c] = k]
      /\ chan' = [chan EXCEPT ![c] = ch]
      /\ lastRefill' = [lastRefill EXCEPT ![b] = r.lastRefill]
      /\ IF r.tokens < 1
         THEN /\ tokens' = [tokens EXCEPT ![b] = r.tokens]
              /\ pc' = [pc EXCEPT ![c] = "waiting"]
              /\ wakeAt' = [wakeAt EXCEPT ![c] = now + waitTime(b)]
              /\ UNCHANGED completions
         ELSE /\ tokens' = [tokens EXCEPT ![b] = debit(r.tokens)]
              /\ pc' = [pc EXCEPT ![c] = AfterAcquire(c, k, ch)]
              /\ completions' = [completions EXCEPT ![ch] = Append(@, now)]
              /\ UNCHANGED wakeAt
      /\ UNCHANGED <<now, tokensPerInterval, intervalInMs>>

\* waitForToken testing the bucket again after the timer and starting another
\* timer while it is empty
WaitForTokenResume_Loop(c) ==
  LET ch == chan[c]
      b == rateLimiters(ch)
      r == Refilled(b)
  IN  /\ pc[c] = "waiting"
      /\ now >= wakeAt[c]
      /\ lastRefill' = [lastRefill EXCEPT ![b] = r.lastRefill]
      /\ IF r.tokens < 1
         THEN /\ tokens' = [tokens EXCEPT ![b] = r.tokens]
              /\ wakeAt' = [wakeAt EXCEPT ![c] = now + waitTime(b)]
              /\ UNCHANGED <<pc, completions>>
         ELSE /\ tokens' = [tokens EXCEPT ![b] = debit(r.tokens)]
              /\ pc' = [pc EXCEPT ![c] = AfterAcquire(c, kind[c], ch)]
              /\ completions' = [completions EXCEPT ![ch] = Append(@, now)]
              /\ UNCHANGED wakeAt
      /\ UNCHANGED <<now, tokensPerInterval, intervalInMs, kind, chan, inv>>

\* waitForToken after the timer: refill again, debit, return true
WaitForTokenResume(c) ==
  LET ch == chan[c]
      b == rateLimiters(ch)
      r == Refilled(b)
  IN  /\ pc[c] = "waiting"
      /\ now >= wakeAt[c]
      /\ lastRefill' = [lastRefill EXCEPT ![b] = r.lastRefill]
      /\ tokens' = [tokens EXCEPT ![b] = debit(r.tokens)]
      /\ pc' = [pc EXCEPT ![c] = AfterAcquire(c, kind[c], ch)]
      /\ completions' = [completions EXCEPT ![ch] = Append(@, now)]
      /\ UNCHANGED <<now, tokensPerInterval, intervalInMs, kind, chan, wakeAt, inv>>

\* a provider call outside findSimilarAnswers (answerQuestions, /api/test-openai)
\* reaching its await rateLimiters.<channel>.waitForToken(); callers are numbered
\* in the order of their calls
RawCall(c, ch) ==
  /\ pc[c] = "idle"
  /\ \A d \in Callers : d < c => pc[d] # "idle"
  /\ WaitForTokenCall(c, "raw", ch)
  /\ UNCHANGED inv

\* a caller that has yet to read Date.now(): it has a waitForToken call to
\* make or to resume
ReadsClock(c) == pc[c] \in {"idle", "waiting", "search_inflight"}

\* the clock advances; a timer may fire late, never early
Tick ==
  /\ now < MaxTime
  /\ \E c \in Callers : ReadsClock(c)
  /\ now' = now + 1
  /\ UNCHANGED <<tokensPerInterval, intervalInMs, tokens, lastRefill,
                 pc, kind, chan, wakeAt, completions, inv>>

----------------------------------------------------------------------------
(* Strings.  A string is the sequence of its words, which one space          *)
(* separates; includes and substring work on its characters. An optional field of a JSON object is   *)
(* <<>> when it is undefined and <<v>> when it holds v.                      *)

None == <<>>
Some(v) == <<v>>
IsDef(o) == o # <<>>
Val(o) == o[1]
\* a field that is a non-empty string (truthy in JavaScript)
Truthy(o) == IsDef(o) /\ Val(o) # <<>>

\* the characters of a string
RECURSIVE join(_)
join(s) ==
  IF s = <<>> THEN ""
  ELSE IF Len(s) = 1 THEN s[1]
  ELSE s[1] \o " " \o join(Tail(s))

\* String.prototype.includes on characters
strIncludes(str, sub) ==
  \E i \in 0 .. (Len(str) - Len(sub)) : SubSeq(str, i + 1, i + Len(sub)) = sub

\* String.prototype.includes
includes(s, sub) == strIncludes(join(s), join(sub))

\* String.prototype.substring(0, n): the first n characters
substring(s, n) ==
  IF Len(join(s)) <= n THEN s ELSE <<SubSeq(join(s), 1, n)>>

\* one word in lower case
LowerWord(w) ==
  CASE w = "No" -> "no"
    [] w = "What" -> "what"
    [] w = "Diabetes" -> "diabetes"
    [] w = "Health" -> "health"
    [] w = "Stock" -> "stock"
    [] w = "Managing" -> "managing"
    [] w = "Please" -> "please"
    [] w = "Answer" -> "answer"
    [] w = "Question" -> "question"
    [] w = "Search" -> "search"
    [] w = "Result" -> "result"
    [] w = "Insulin" -> "insulin"
    [] w = "I" -> "i"
    [] OTHER -> w

\* String.prototype.toLowerCase
toLowerCase(s) == [i \in 1 .. Len(s) |-> LowerWord(s[i])]

\* answer.question.replace(/<[^>]*>/g, ''): the words that are HTML tags go
stripTags(s) == SelectSeq(s, LAMBDA w : w \notin {"<p>", "</p>", "<b>", "</b>"})

\* whether kw occurs in the string
mentions(s, kw) == strIncludes(join(s), kw)

\* the fixed texts of the program
CanonicalQuestion ==
  <<"No", "closely", "related", "questions", "or", "answers", "found">>
CheckBackLater ==
  <<"Please", "check", "back", "for", "an", "answer", "to", "your", "question", "later">>
TryRephrasing ==
  <<"Please", "try", "rephrasing", "your", "question", "or", "ask", "something", "else">>
AnswerNotAvailable == <<"Answer", "not", "available">>
QuestionNotAvailable == <<"Question", "not", "available">>
NoAnswerAvailable == <<"No", "answer", "available">>

\* the canonical no-result answer
Canonical == [question |-> CanonicalQuestion, answer |-> CheckBackLater]

\* the words of stopWords, of domainKeywords (a word counts when it contains a
\* keyword or a keyword contains it) and of length <= 2, among the words the
\* model's queries use
StopWords == {"what", "are", "the", "of", "is", "to", "for", "no", "or"}
ShortWords == {"of", "is", "to", "no", "or"}
DomainWords == {"are", "the", "symptoms", "diabetes", "is", "to", "health",
                "for", "no", "or", "treatment", "medical"}
\* otherDomainIndicators: the weight of a term, in tenths
IndicatorWeight(w) ==
  CASE w = "quantum" -> 9
    [] w = "physics" -> 8
    [] w = "space" -> 6
    [] OTHER -> 0
IndicatorTerms == {"quantum", "physics", "space"}
\* the topic words tested on a candidate, and the keyword list tested on both
TopicWords == {"diabetes", "health", "medical", "lyme", "tick"}
QueryKeywords == {"symptoms", "treatment", "cause", "manage", "diet", "medication",
                  "insulin", "lyme", "tick", "disease", "infection", "bite"}


----------------------------------------------------------------------------
(* Provider data *)

\* program constants
ConfidenceThreshold == 45
ScoreScale == 20
QuestionPrefixLen == 20
ContentPrefixLen == 50
HitScoreDivisor == 5
HitScoreCap == 95
SearchTop == 8

\* Scores are counted in hundredths of a point of the 0-20 scale (900 is 9.0),
\* relevanceScore and confidence in hundredths of the 0-1 scale (45 is 0.45),
\* provider search scores in hundredths (750 is 7.5).

\* an element of the parsed array that is an object
Obj(q, a, rel, conf) ==
  [type |-> "object", question |-> q, answer |-> a,
   relevanceScore |-> rel, confidence |-> conf, score |-> None]
\* an element that is null
NullElement ==
  [type |-> "null", question |-> None, answer |-> None,
   relevanceScore |-> None, confidence |-> None, score |-> None]

(* A completion text is described by what the program's regular expressions  *)
(* and JSON.parse find in it:                                                *)
(*   words   the words outside its JSON part                                 *)
(*   bracket whether /\[\s*\{.*\}\s*\]/s matches (the match is the JSON part)*)
(*   shape   "array"/"value": the JSON part is valid JSON (an array, or      *)
(*           another value); "pairs": invalid, the question/answer regex     *)
(*           finds pairs; "esc_array"/"esc_value": invalid, valid once       *)
(*           escaped; "prose": none of these                                 *)
(*   elems   the elements of the array;  pairs: the regex's captures         *)
Text(words, bracket, shape, elems, pairs) ==
  [words |-> words, bracket |-> bracket, shape |-> shape,
   elems |-> elems, pairs |-> pairs]

Prose(words) == Text(words, FALSE, "prose", <<>>, <<>>)
\* a JSON array and nothing else
ArrayText(elems) ==
  Text(<<>>,
       elems # <<>> /\ elems[1].type = "object" /\ elems[Len(elems)].type = "object",
       "array", elems, <<>>)

\* whether the string holds no character
IsEmptyText(t) == t.words = <<>> /\ t.shape = "prose" /\ ~t.bracket

\* the answer texts of the helpers' catch blocks
GptErrorText_Plain ==
  Prose(<<"I", "apologize", "please", "try", "again", "later">>)
GptErrorText ==
  Prose(<<"I", "apologize", "but", "I", "encountered", "an", "error", "while",
          "processing", "your", "question">>)
DocsErrorText ==
  Prose(<<"I", "apologize", "but", "I", "encountered", "an", "error", "while",
          "processing", "your", "question", "with", "the", "available", "documents">>)

\* all the strings inside a text's JSON part
JsonStrings(t) ==
  {Val(t.elems[i].question) : i \in {j \in 1 .. Len(t.elems) : IsDef(t.elems[j].question)}}
    \cup {Val(t.elems[i].answer) : i \in {j \in 1 .. Len(t.elems) : IsDef(t.elems[j].answer)}}
    \cup {t.pairs[i].question : i \in 1 .. Len(t.pairs)}
    \cup {t.pairs[i].answer : i \in 1 .. Len(t.pairs)}

\* answer.includes(w) for a one-word marker w
textIncludes(t, w) ==
  mentions(t.words, w) \/ \E str \in JsonStrings(t) : mentions(str, w)

\* answer.startsWith(w)
textStartsWith(t, w) == t.words # <<>> /\ t.words[1] = w

\* a hit of the search index
Hit(title, content, searchScore, rerankerScore) ==
  [title |-> title, content |-> content,
   searchScore |-> searchScore, rerankerScore |-> rerankerScore]


----------------------------------------------------------------------------
(* findSimilarAnswers: normalization *)

\* ensureAzureResponse: a missing or empty answer becomes "No answer available"
ensureAzureResponse(answer) ==
  IF ~IsDef(answer) \/ IsEmptyText(Val(answer))
  THEN Prose(NoAnswerAvailable)
  ELSE Val(answer)

\* the error-message check looking at the start of the text only
looksLikeError_StartOnly(t) == textStartsWith(t, "Error:")

\* the error-message check made before any parsing
looksLikeError(t) ==
  \/ textIncludes(t, "Cannot read properties")
  \/ textStartsWith(t, "Error:")
  \/ textIncludes(t, "error")

\* whether JSON.parse accepts the text
JSONvalid(t) == t.words = <<>> /\ t.shape \in {"array", "value"}

\* JSON.parse: the value, or ok = FALSE when it throws
JSONparse(t) ==
  IF ~JSONvalid(t) THEN [ok |-> FALSE, isArray |-> FALSE, elems |-> <<>>]
  ELSE IF t.shape = "array" THEN [ok |-> TRUE, isArray |-> TRUE, elems |-> t.elems]
  ELSE [ok |-> TRUE, isArray |-> FALSE, elems |-> <<>>]

\* answer.replace(/\\/g, '\\\\').replace(/"/g, '\\"').replace(/\n/g, '\\n'), per word
EscapeWord(w) ==
  CASE w = "\"" -> "\\\""
    [] w = "\"ok\"" -> "\\\"ok\\\""
    [] w = "\\" -> "\\\\"
    [] w = "\n" -> "\\n"
    [] OTHER -> w
escapeAnswer(a) == [i \in 1 .. Len(a) |-> EscapeWord(a[i])]

\* JSON.stringify(questionAnswerPairs): a JSON array text holding the pairs
JSONstringifyPairs(pairs) ==
  Text(<<>>, TRUE, "array",
       [i \in 1 .. Len(pairs) |->
          Obj(Some(pairs[i].question), Some(pairs[i].answer), None, None)],
       <<>>)

\* the fallback JSON text sanitizeJsonResponse returns when nothing parses
FallbackText == ArrayText(<<Obj(Some(CanonicalQuestion), Some(TryRephrasing), None, None)>>)

\* text.match(/\[\s*\{.*\}\s*\]/s): the text becomes the match when there is one
jsonArrayMatch(text) == IF text.bracket THEN [text EXCEPT !.words = <<>>] ELSE text

\* sanitizeJsonResponse returning the text when no repair succeeds
sanitizeJsonResponse_NoFallback(text) == jsonArrayMatch(text)

\* sanitizeJsonResponse
sanitizeJsonResponse(text) ==
  LET t == jsonArrayMatch(text)
      questionAnswerPairs ==
        [i \in 1 .. Len(t.pairs) |->
           [question |-> t.pairs[i].question, answer |-> escapeAnswer(t.pairs[i].answer)]]
  IN  IF JSONvalid(t) THEN t
      ELSE IF t.shape = "pairs" /\ Len(questionAnswerPairs) > 0
        THEN JSONstringifyPairs(questionAnswerPairs)
      ELSE IF t.shape = "esc_array" THEN Text(<<>>, t.bracket, "array", t.elems, <<>>)
      ELSE IF t.shape = "esc_value" THEN Text(<<>>, t.bracket, "value", <<>>, <<>>)
      ELSE FallbackText

\* the normalization step: sanitizeJsonResponse followed by JSON.parse
normalize(text) == JSONparse(sanitizeJsonResponse(text))


----------------------------------------------------------------------------
(* findSimilarAnswers: scoring *)

\* result['@search.score'] || result['@search.rerankerScore'] || 0
hitScore(h) == IF h.searchScore # 0 THEN h.searchScore ELSE h.rerankerScore

\* the candidates made from the search results, their score left uncapped
fromSearchResults_NoCap(results) ==
  [i \in 1 .. Len(results) |->
     Obj(Some(IF Truthy(results[i].title) THEN Val(results[i].title)
              ELSE <<"Search", "Result", ToString(i)>>),
         Some(IF Truthy(results[i].content) THEN Val(results[i].content) ELSE <<>>),
         Some(hitScore(results[i]) \div HitScoreDivisor),
         None)]

\* the candidates made from the search results when the model gave none
fromSearchResults(results) ==
  [i \in 1 .. Len(results) |->
     Obj(Some(IF Truthy(results[i].title) THEN Val(results[i].title)
              ELSE <<"Search", "Result", ToString(i)>>),
         Some(IF Truthy(results[i].content) THEN Val(results[i].content) ELSE <<>>),
         Some(Min(hitScore(results[i]) \div HitScoreDivisor, HitScoreCap)),
         None)]

\* the hits whose content is a key of searchScores and whose first
\* ContentPrefixLen characters occur in the candidate's answer
contentMatches(el, results) ==
  {i \in 1 .. Len(results) :
     /\ Truthy(results[i].content)
     /\ Truthy(el.answer)
     /\ includes(Val(el.answer), substring(Val(results[i].content), ContentPrefixLen))}

\* searchScores[content] for the last key of searchScores that matches: keys
\* keep the order of their first insertion, a value is the last one stored
lastMatchingScore(el, results) ==
  LET M == contentMatches(el, results)
      firsts == {i \in M : \A j \in 1 .. (i - 1) : results[j].content # results[i].content}
      k == CHOOSE i \in firsts : \A j \in firsts : j <= i
      last == CHOOSE i \in 1 .. Len(results) :
                /\ results[i].content = results[k].content
                /\ \A j \in 1 .. Len(results) :
                     results[j].content = results[k].content => j <= i
  IN  hitScore(results[last])

\* the domain analysis of the query: TRUE when relevanceScore < 0.3
lowDomainRelevance(question) ==
  LET questionWords == toLowerCase(question)
      significant == {i \in 1 .. Len(questionWords) :
                        questionWords[i] \notin ShortWords \cup StopWords}
      totalSignificantWords == Cardinality(significant)
      domainWordCount == Cardinality({i \in significant : questionWords[i] \in DomainWords})
      found == {w \in IndicatorTerms : mentions(questionWords, w)}
      Sum[S \in SUBSET IndicatorTerms] ==
        IF S = {} THEN 0
        ELSE LET w == CHOOSE x \in S : TRUE IN IndicatorWeight(w) + Sum[S \ {w}]
      otherDomainScore == Min(Sum[found], 10)
  IN  \* domainWordCount / totalSignificantWords * (1 - otherDomainScore) < 0.3
      IF totalSignificantWords = 0 THEN TRUE
      ELSE domainWordCount * (10 - otherDomainScore) < 3 * totalSignificantWords

hasKeyword(str) == \E kw \in QueryKeywords : mentions(str, kw)
                     \/ includes(str, <<"blood", "sugar">>)

\* the question rule scoring on equality only
questionMatchScore_ExactOnly(el, question) ==
  IF Truthy(el.question)
     /\ toLowerCase(stripTags(Val(el.question))) = toLowerCase(question)
  THEN 1900 ELSE 0

\* matching by question similarity: 19.0, 18.0, or 0 when there is no match
questionMatchScore(el, question) ==
  LET cleanQuestionLower == toLowerCase(stripTags(Val(el.question)))
      cleanQueryLower == toLowerCase(question)
  IN  IF ~Truthy(el.question) THEN 0
      ELSE IF \/ cleanQuestionLower = cleanQueryLower
              \/ includes(cleanQuestionLower, cleanQueryLower)
              \/ includes(cleanQueryLower, cleanQuestionLower)
        THEN 1900
      ELSE IF \/ includes(cleanQuestionLower, substring(cleanQueryLower, QuestionPrefixLen))
              \/ includes(cleanQueryLower, substring(cleanQuestionLower, QuestionPrefixLen))
        THEN 1800
      ELSE 0

\* what the body of parsedAnswers.forEach leaves for one element: the score
\* it set, in hundredths, and the rule that set it, or threw = TRUE when it
\* raises a TypeError
Mark(n, r) == [threw |-> FALSE, score |-> n, rule |-> r]
TypeError == [threw |-> TRUE, score |-> 0, rule |-> "none"]

\* the domain analysis for a candidate no earlier rule has matched: 5.0 for a
\* query of low relevance, 16.0 or 10.0 for a topical candidate, and the
\* default 0.1 for the others
domainScore(el, question) ==
  LET q == IF Truthy(el.question) THEN Val(el.question) ELSE <<>>
      a == IF Truthy(el.answer) THEN Val(el.answer) ELSE <<>>
      cleanQueryLower == toLowerCase(question)
      ql == toLowerCase(q)
      al == toLowerCase(a)
      topical == \E w \in TopicWords : mentions(ql, w) \/ mentions(al, w)
  IN  IF lowDomainRelevance(question)
        THEN IF ~IsDef(el.question) THEN TypeError ELSE Mark(500, "domain")
      ELSE IF ~IsDef(el.question) THEN TypeError
      ELSE IF ~IsDef(el.answer) /\ ~mentions(ql, "diabetes") THEN TypeError
      ELSE IF ~topical THEN Mark(10, "default")
      ELSE IF ~IsDef(el.answer) /\ ~mentions(ql, "symptoms") THEN TypeError
      ELSE IF hasKeyword(cleanQueryLower) /\ (hasKeyword(ql) \/ hasKeyword(al))
        THEN Mark(1600, "domain")
      ELSE Mark(1000, "domain")

\* the body of parsedAnswers.forEach with the content rule tried before the
\* relevanceScore and the question rule
scoreOne_ContentFirst(el, question, results) ==
  IF el.type # "object" THEN TypeError
  ELSE IF contentMatches(el, results) # {} /\ IsDef(el.question)
    THEN Mark(lastMatchingScore(el, results), "content")
  ELSE IF IsDef(el.relevanceScore)
    THEN Mark(Val(el.relevanceScore) * ScoreScale, "explicit")
  ELSE IF questionMatchScore(el, question) > 0
    THEN Mark(questionMatchScore(el, question), "question")
  ELSE domainScore(el, question)

\* the body of parsedAnswers.forEach for one element
scoreOne(el, question, results) ==
  IF el.type # "object" THEN TypeError
  ELSE IF IsDef(el.relevanceScore)
    THEN Mark(Val(el.relevanceScore) * ScoreScale, "explicit")
  ELSE IF questionMatchScore(el, question) > 0
    THEN Mark(questionMatchScore(el, question), "question")
  ELSE IF contentMatches(el, results) # {}
    THEN \* the log line reads answer.question.substring
         IF ~IsDef(el.question) THEN TypeError
         ELSE Mark(lastMatchingScore(el, results), "content")
  ELSE domainScore(el, question)


----------------------------------------------------------------------------
(* findSimilarAnswers: filter, fallback and result *)

\* the confidence filter with the score taken as it is when it is at most 1
passesFilter_NoScoreTest(el) ==
  IF IsDef(el.confidence) THEN Val(el.confidence) >= ConfidenceThreshold
  ELSE TRUE

\* the filter keeping what is at or below the threshold
passesFilterAt_Below(el, confidenceThreshold) ==
  IF IsDef(el.confidence) THEN Val(el.confidence) <= confidenceThreshold
  ELSE IF IsDef(el.score)
    THEN IF Val(el.score) <= 100
         THEN Val(el.score) <= confidenceThreshold
         ELSE Val(el.score) <= confidenceThreshold * ScoreScale
  ELSE TRUE

\* the predicate of parsedAnswers.filter for a given confidenceThreshold:
\* confidence first, then the score, taken as it is when it is at most 1 and
\* divided by 20 otherwise
passesFilterAt(el, confidenceThreshold) ==
  IF IsDef(el.confidence) THEN Val(el.confidence) >= confidenceThreshold
  ELSE IF IsDef(el.score)
    THEN IF Val(el.score) <= 100
         THEN Val(el.score) >= confidenceThreshold
         ELSE Val(el.score) >= confidenceThreshold * ScoreScale
  ELSE TRUE

\* the predicate of parsedAnswers.filter
passesFilter(el) == passesFilterAt(el, ConfidenceThreshold)

\* the mapping of a kept candidate to the answer returned for it
toSimilarAnswer(el) ==
  LET updatedAnswer == IF Truthy(el.answer) THEN Val(el.answer) ELSE AnswerNotAvailable
  IN  [question |-> IF Truthy(el.question) THEN Val(el.question) ELSE QuestionNotAvailable,
       answer |-> IF updatedAnswer = TryRephrasing THEN CheckBackLater ELSE updatedAnswer]

\* what one run of findSimilarAnswers produced: the path taken, the candidate
\* list after the fallback from hits, the scored list, the kept list, the
\* returned list, and whether an exception left the function
Outcome(path, parsed, scored, kept, result) ==
  [path |-> path, threw |-> FALSE, parsed |-> parsed, scored |-> scored,
   kept |-> kept, result |-> result]
Degraded(path, parsed, scored) == Outcome(path, parsed, scored, <<>>, <<Canonical>>)
Raised(parsed) ==
  [path |-> "raised", threw |-> TRUE, parsed |-> parsed, scored |-> <<>>,
   kept |-> <<>>, result |-> <<>>]

\* the empty-set fallback returning the kept list as it is
emptySetFallback_None(path, parsed, scored, kept) ==
  Outcome("answers", parsed, scored, kept,
          [i \in 1 .. Len(kept) |-> toSimilarAnswer(kept[i])])

\* the return of the kept answers, or of the canonical answer when none is kept
emptySetFallback(path, parsed, scored, kept) ==
  IF Len(kept) = 0 THEN Degraded("none_kept", parsed, scored)
  ELSE Outcome("answers", parsed, scored, kept,
               [i \in 1 .. Len(kept) |-> toSimilarAnswer(kept[i])])

\* the body of the outer try block, from the parsed value on
scoreAndFilter(elems, question, results) ==
  LET useHits == /\ Len(elems) = 1
                 /\ elems[1].question = Some(CanonicalQuestion)
                 /\ IsDef(results) /\ Len(Val(results)) > 0
      hits == IF IsDef(results) THEN Val(results) ELSE <<>>
      parsedAnswers == IF useHits THEN fromSearchResults(hits) ELSE elems
      marks == [i \in 1 .. Len(parsedAnswers) |-> scoreOne(parsedAnswers[i], question, hits)]
      scored == [i \in 1 .. Len(parsedAnswers) |->
                   [parsedAnswers[i] EXCEPT !.score = Some(marks[i].score)]]
      filteredAnswers == SelectSeq(scored, passesFilter)
  IN  IF Len(elems) = 1 /\ elems[1].type = "null" THEN Raised(elems)
      ELSE IF \E i \in 1 .. Len(marks) : marks[i].threw THEN Raised(parsedAnswers)
      ELSE emptySetFallback("answers", parsedAnswers, scored, filteredAnswers)

\* the outer catch block rethrowing
outerCatch_Rethrow(out) == out

\* the outer catch block: any exception of the try block becomes the canonical answer
outerCatch(out) ==
  IF out.threw THEN Degraded("caught", out.parsed, <<>>) ELSE out

\* findSimilarAnswers once submitQuestionDocuments has returned answer and
\* searchResults
findSimilarAnswers(question, answer, results) ==
  LET azureResponse == ensureAzureResponse(answer)
      parsed == normalize(azureResponse)
  IN  outerCatch(
        IF looksLikeError(azureResponse) THEN Degraded("error_text", <<>>, <<>>)
        ELSE IF ~parsed.ok THEN Degraded("parse_failed", <<>>, <<>>)
        ELSE IF ~parsed.isArray THEN Degraded("not_array", <<>>, <<>>)
        ELSE scoreAndFilter(parsed.elems, question, results))


----------------------------------------------------------------------------
(* Provider responses the model draws from *)

\* the longest array of candidates a completion holds, and the longest hit list
MaxCandidates == 4
MaxHits == 4

\* the out-of-domain query of Scenario D
StockQuery == <<"What", "is", "the", "best", "stock", "to", "buy?">>

\* the queries
Queries ==
  {<<"symptoms", "of", "diabetes">>,
   StockQuery,
   <<"answers">>,
   <<"Diabetes", "treatment">>}

SymptomsQuestion == <<"What", "are", "the", "symptoms", "of", "diabetes", "?">>
ThirstAnswer == <<"<p>", "thirst", "and", "fatigue", "</p>">>
InsulinContent == <<"insulin", "helps">>

\* candidates carrying a relevanceScore the model of the provider chose
E_high == Obj(Some(SymptomsQuestion), Some(ThirstAnswer), Some(90), None)
E_mid == Obj(Some(<<"Managing", "sugar">>), Some(<<"eat", "well">>), Some(30), None)
E_low == Obj(Some(<<"Stock", "tips">>), Some(<<"buy", "low">>), Some(3), None)
\* candidates without one, scored by rules 2 to 4
E_plain == Obj(Some(SymptomsQuestion), Some(ThirstAnswer), None, None)
E_content == Obj(Some(<<"Managing", "sugar">>),
                 Some(<<"insulin", "helps", "a", "lot">>), None, None)
E_noQuestion == Obj(None, Some(<<"insulin", "helps", "a", "lot">>), None, None)
E_noAnswer == Obj(Some(<<"Health", "tips">>), None, None, None)
E_emptyFields == Obj(Some(<<>>), Some(<<>>), Some(50), None)
E_confident == Obj(Some(SymptomsQuestion), Some(ThirstAnswer), Some(10), Some(50))
E_unsure == Obj(Some(SymptomsQuestion), Some(ThirstAnswer), Some(90), Some(20))
\* candidates for the question rule: a question sharing its first 20
\* characters with StockQuery, a matching question with a low confidence, an
\* empty question
E_prefix == Obj(Some(<<"What", "is", "the", "best", "stockbroker">>),
                Some(<<"ask", "around">>), None, None)
E_matchUnsure == Obj(Some(SymptomsQuestion), Some(ThirstAnswer), None, Some(20))
E_emptyQuestion == Obj(Some(<<>>), Some(<<"eat", "well">>), None, None)
\* a candidate with a high relevanceScore whose answer holds the word "error"
E_errorWord == Obj(Some(SymptomsQuestion),
                   Some(<<"a", "dosing", "error", "is", "dangerous">>), Some(90), None)
\* a candidate whose question matches the symptoms query and whose answer
\* holds the content of a hit
E_both == Obj(Some(SymptomsQuestion), Some(<<"insulin", "helps", "a", "lot">>), None, None)

\* the arrays of candidates: the arrays of up to two candidates with a high
\* or a low relevanceScore, E_high up to MaxCandidates times, and the other
\* candidates alone or after E_high
CandidateLists ==
  UNION {[1 .. n -> {E_high, E_low}] : n \in 0 .. 2}
    \cup {[i \in 1 .. n |-> E_high] : n \in 0 .. MaxCandidates}
    \cup {<<e>> : e \in {E_mid, E_plain, E_content, E_noQuestion, E_noAnswer,
                         E_emptyFields, E_confident, E_unsure, E_prefix,
                         E_matchUnsure, E_emptyQuestion, E_both, E_errorWord,
                         NullElement}}
    \cup {<<E_high, NullElement>>, <<E_high, E_noQuestion>>}

\* the completion "I don't know"
IDontKnow == Prose(<<"I", "don't", "know">>)

\* the completion texts
\* a question/answer pair whose answer holds unescaped quotes, and the
\* prose-wrapped malformed JSON that contains it
QuotedPair == [question |-> SymptomsQuestion, answer |-> <<"drink", "\"ok\"", "water">>]
MalformedPairs == Text(<<"Sure">>, TRUE, "pairs", <<>>, <<QuotedPair>>)

Completions ==
  {ArrayText(l) : l \in CandidateLists}
    \cup {Prose(<<>>),
          IDontKnow,
          Prose(<<"an", "error", "occurred">>),
          Prose(<<"Error:", "timeout">>),
          Prose(<<"TypeError:", "Cannot read properties", "of", "undefined">>),
          \* valid JSON that is not an array
          Text(<<>>, FALSE, "value", <<>>, <<>>),
          \* an array inside prose
          Text(<<"Here", "are", "the", "results">>, TRUE, "array", <<E_high>>, <<>>),
          \* JSON cut short
          Text(<<>>, FALSE, "prose", <<E_high>>, <<>>),
          \* malformed JSON holding one pair with unescaped quotes in the answer
          MalformedPairs,
          \* JSON made valid by escaping the quotes inside HTML tags
          Text(<<>>, TRUE, "esc_array", <<E_plain>>, <<>>),
          Text(<<>>, FALSE, "esc_value", <<>>, <<>>)}

\* hits of the index
H_high == Hit(Some(<<"diabetes", "care">>), Some(InsulinContent), 750, 0)
H_low == Hit(Some(<<"Stock", "tips">>), Some(<<"buy", "low">>), 50, 0)
H_reranked == Hit(None, Some(InsulinContent), 0, 320)
H_bare == Hit(None, None, 20, 0)
H_mid == Hit(Some(<<"Insulin", "basics">>), Some(<<"insulin", "is", "a", "hormone">>), 320, 0)
H_top == Hit(Some(<<"Insulin", "guide">>), Some(InsulinContent), 2500, 0)

\* the hit lists: the service returns at most top hits, best score first
HitLists ==
  {[i \in 1 .. n |-> H_high] : n \in 0 .. Min(MaxHits, SearchTop)}
    \cup {<<H_low>>, <<H_high, H_low>>, <<H_reranked>>, <<H_bare>>,
          <<H_high, H_reranked>>, <<H_high, H_mid>>, <<H_top>>}


----------------------------------------------------------------------------
(* Specification of the limiter alone: NCallers concurrent callers *)

\* new RateLimiter(n, n * k): a full bucket
LimiterConfigs ==
  [Channels -> (1 .. MaxTokensPerInterval) \X (1 .. MaxWaitTime)]

NoInvocation == [stage |-> "none"]

\* the limiters as rateLimiter.js builds them, and the callers that take part
InitWith(cfg, present) ==
  /\ now = 0
  /\ tokensPerInterval = [b \in Channels |-> cfg[b][1]]
  /\ intervalInMs = [b \in Channels |-> cfg[b][1] * cfg[b][2]]
  /\ tokens = [b \in Channels |-> cfg[b][1]]
  /\ lastRefill = [b \in Channels |-> 0]
  /\ pc = [c \in Callers |-> IF c \in present THEN "idle" ELSE "absent"]
  /\ kind = [c \in Callers |-> "none"]
  /\ chan = [c \in Callers |-> "none"]
  /\ wakeAt = [c \in Callers |-> 0]
  /\ completions = [ch \in Channels |-> <<>>]
  /\ inv = [c \in Callers |-> NoInvocation]

InitLimiter == \E cfg \in LimiterConfigs : InitWith(cfg, Callers)

NextLimiter ==
  \/ \E c \in Callers, ch \in Channels : RawCall(c, ch)
  \/ \E c \in Callers : WaitForTokenResume(c)
  \/ Tick

SpecLimiter == InitLimiter /\ [][NextLimiter]_vars

----------------------------------------------------------------------------
(* Specification of findSimilarAnswers: one invocation made after NTraffic    *)
(* other provider calls                                                      *)

Traffic == 1 .. NTraffic
Finders == {NTraffic + 1}

\* the hits of whichever invocation got its search response first
responseSearchResults_Shared(c) ==
  LET holders == {d \in Callers : inv[d].stage \in {"chat", "done"}}
  IN  inv[CHOOSE d \in holders : \A e \in holders : d <= e].searchResults

\* response.searchResults: the hits submitQuestionDocuments got for this
\* invocation, held in its own frame
responseSearchResults(c) == inv[c].searchResults

\* findSimilarAnswers(node, question) up to the await
\* rateLimiters.search.waitForToken() of querySearchIndex; callers are
\* numbered in the order of their calls
Start(c, question) ==
  /\ pc[c] = "idle"
  /\ \A d \in Callers : d < c => pc[d] # "idle"
  /\ WaitForTokenCall(c, "find", "search")
  /\ inv' = [inv EXCEPT ![c] = [stage |-> "search", question |-> question,
                                searchResults |-> None]]

\* the rest of findSimilarAnswers once submitQuestionDocuments has returned
Respond(c, transport, answer, results) ==
  LET azureResponse == ensureAzureResponse(answer)
  IN  /\ pc' = [pc EXCEPT ![c] = "returned"]
      /\ inv' = [inv EXCEPT ![c] =
                   [stage |-> "done",
                    question |-> inv[c].question,
                    transport |-> transport,
                    answer |-> answer,
                    searchResults |-> results,
                    parsedAnswers |-> IF looksLikeError(azureResponse) THEN None
                                      ELSE Some(normalize(azureResponse)),
                    out |-> findSimilarAnswers(inv[c].question, answer, results)]]
      /\ UNCHANGED <<now, tokensPerInterval, intervalInMs, tokens, lastRefill,
                     kind, chan, wakeAt, completions>>

\* the search request fails and submitQuestionDocuments goes on to the
\* completion all the same
SearchFail_Continue(c) ==
  /\ pc[c] = "search_inflight"
  /\ WaitForTokenCall(c, "find", "chatCompletions")
  /\ inv' = [inv EXCEPT ![c] = [stage |-> "chat", question |-> inv[c].question,
                                searchResults |-> None]]

\* the search request fails: querySearchIndex returns success false,
\* submitQuestionDocuments throws and its catch block answers
SearchFail(c) ==
  /\ pc[c] = "search_inflight"
  /\ Respond(c, "search_failed", Some(DocsErrorText), None)

\* the search request succeeds: submitQuestionDocuments goes on to
\* submitQuestionGeneralGPT, up to its await
\* rateLimiters.chatCompletions.waitForToken()
SearchOk(c, results) ==
  /\ pc[c] = "search_inflight"
  /\ WaitForTokenCall(c, "find", "chatCompletions")
  /\ inv' = [inv EXCEPT ![c] = [stage |-> "chat", question |-> inv[c].question,
                                searchResults |-> Some(results)]]

\* the completion request fails: the catch block of submitQuestionGeneralGPT
\* answers, submitQuestionDocuments adds the hits
ChatFail(c) ==
  /\ pc[c] = "chat_inflight"
  /\ Respond(c, "chat_failed", Some(GptErrorText), responseSearchResults(c))

\* the completion arrives
ChatOk(c, text) ==
  /\ pc[c] = "chat_inflight"
  /\ Respond(c, "ok", Some(text), responseSearchResults(c))

\* the list posted when every returned answer is sent
similar2Post_All(similarAnswers) == similarAnswers

\* similar2Post of the /api/find-similar handler: the first answers, up to 3,
\* unless the list is empty or its first question includes the canonical
\* text, and then a single entry
similar2Post(similarAnswers) ==
  IF /\ Len(similarAnswers) > 0
     /\ ~includes(similarAnswers[1].question, CanonicalQuestion)
  THEN SubSeq(similarAnswers, 1, Min(3, Len(similarAnswers)))
  ELSE IF Len(similarAnswers) > 0 THEN <<similarAnswers[1]>>
  ELSE <<Canonical>>

\* /api/find-similar after findSimilarAnswers has returned and loginDrupal
\* has answered: similar2Post is built and postSimilar2Drupal is called; the
\* handler holds the returned list, not the locals of findSimilarAnswers
LoginOk(c) ==
  /\ pc[c] = "returned"
  /\ ~inv[c].out.threw
  /\ pc' = [pc EXCEPT ![c] = "posting"]
  /\ inv' = [inv EXCEPT ![c] =
               [stage |-> "post",
                similarAnswers |-> inv[c].out.result,
                similar2Post |-> similar2Post(inv[c].out.result)]]
  /\ UNCHANGED <<now, tokensPerInterval, intervalInMs, tokens, lastRefill,
                 kind, chan, wakeAt, completions>>

\* loginDrupal throws: the inner catch answers 500 and nothing is posted
LoginFail(c) ==
  /\ pc[c] = "returned"
  /\ ~inv[c].out.threw
  /\ pc' = [pc EXCEPT ![c] = "login_failed"]
  /\ inv' = [inv EXCEPT ![c] = [stage |-> "failed"]]
  /\ UNCHANGED <<now, tokensPerInterval, intervalInMs, tokens, lastRefill,
                 kind, chan, wakeAt, completions>>

\* postSimilar2Drupal answers: the handler logs out and replies success
PostOk(c) ==
  /\ pc[c] = "posting"
  /\ pc' = [pc EXCEPT ![c] = "posted"]
  /\ UNCHANGED <<now, tokensPerInterval, intervalInMs, tokens, lastRefill,
                 kind, chan, wakeAt, completions, inv>>

\* postSimilar2Drupal throws: the inner catch answers 500
PostFail(c) ==
  /\ pc[c] = "posting"
  /\ pc' = [pc EXCEPT ![c] = "post_failed"]
  /\ inv' = [inv EXCEPT ![c] = [stage |-> "failed"]]
  /\ UNCHANGED <<now, tokensPerInterval, intervalInMs, tokens, lastRefill,
                 kind, chan, wakeAt, completions>>

Init == InitWith([b \in Channels |-> <<1, 1>>], Traffic \cup Finders)

Next ==
  \/ \E c \in Traffic, ch \in Channels : RawCall(c, ch)
  \/ \E c \in Callers : WaitForTokenResume(c)
  \/ Tick
  \/ \E c \in Finders, q \in Queries : Start(c, q)
  \/ \E c \in Finders : SearchFail(c)
  \/ \E c \in Finders, results \in HitLists : SearchOk(c, results)
  \/ \E c \in Finders : ChatFail(c)
  \/ \E c \in Finders, text \in Completions : ChatOk(c, text)
  \/ \E c \in Finders : LoginOk(c)
  \/ \E c \in Finders : LoginFail(c)
  \/ \E c \in Finders : PostOk(c)
  \/ \E c \in Finders : PostFail(c)

Spec == Init /\ [][Next]_vars

----------------------------------------------------------------------------
(* Scenario E: ScenarioCalls waitForToken calls made back to back on a       *)
(* limiter of capacity ScenarioCapacity, by up to ScenarioTasks concurrent   *)
(* tasks                                                                     *)

ScenarioCalls == 10
ScenarioCapacity == 5
ScenarioTasks == 2

\* the waitForToken calls made so far on a channel
CallsMade(ch) ==
  Len(completions[ch]) + Cardinality({c \in Callers : pc[c] = "waiting" /\ chan[c] = ch})

\* a task makes its next waitForToken call as soon as its last one returned;
\* tasks are numbered in the order of their first calls
ScenarioCall(c) ==
  /\ pc[c] \in {"idle", "acquired"}
  /\ pc[c] = "idle" => \A d \in Callers : d < c => pc[d] # "idle"
  /\ CallsMade("chatCompletions") < ScenarioCalls
  /\ WaitForTokenCall(c, "raw", "chatCompletions")
  /\ UNCHANGED inv

\* time passes while a setTimeout is pending; a timer fires at most one unit late
TimerTick ==
  /\ \E c \in Callers : pc[c] = "waiting" /\ now <= wakeAt[c]
  /\ now' = now + 1
  /\ UNCHANGED <<tokensPerInterval, intervalInMs, tokens, lastRefill,
                 pc, kind, chan, wakeAt, completions, inv>>

\* new RateLimiter(5, 1000): the unit of time is 1000 / 5 = 200 ms
InitScenarioE ==
  InitWith([b \in Channels |-> <<ScenarioCapacity, 1>>], 1 .. Min(ScenarioTasks, NCallers))

NextScenarioE ==
  \/ \E c \in Callers : ScenarioCall(c)
  \/ \E c \in Callers : WaitForTokenResume(c)
  \/ TimerTick

\* timers fire and the event loop runs every task that is ready
SpecScenarioE ==
  InitScenarioE /\ [][NextScenarioE]_vars /\ WF_vars(NextScenarioE)

----------------------------------------------------------------------------
(* Concurrent invocations: two requests to /api/find-similar are in flight   *)
(* at once, each running findSimilarAnswers on its own inputs, with one      *)
(* token per unit of time on each channel.                                   *)

\* the invocations, numbered in the order of their calls
ConcurrentFinders == {NTraffic + 1, NTraffic + 2}

\* what the two requests ask and what the providers answer them
ConcurrentQueries == {<<"symptoms", "of", "diabetes">>, StockQuery}
ConcurrentHits == {<<>>, <<H_high>>, <<H_low>>}
ConcurrentCompletions == {ArrayText(<<E_high>>), ArrayText(<<E_content>>), IDontKnow}

InitConcurrent == InitWith([b \in Channels |-> <<1, 1>>], ConcurrentFinders)

NextConcurrent ==
  \/ \E c \in ConcurrentFinders, q \in ConcurrentQueries : Start(c, q)
  \/ \E c \in ConcurrentFinders : WaitForTokenResume(c)
  \/ Tick
  \/ \E c \in ConcurrentFinders : SearchFail(c)
  \/ \E c \in ConcurrentFinders, results \in ConcurrentHits : SearchOk(c, results)
  \/ \E c \in ConcurrentFinders : ChatFail(c)
  \/ \E c \in ConcurrentFinders, text \in ConcurrentCompletions : ChatOk(c, text)

SpecConcurrent == InitConcurrent /\ [][NextConcurrent]_vars

----------------------------------------------------------------------------
(* Claims about the RateLimiter, checked under SpecLimiter *)

\* the number of waitForToken calls on channel ch that returned in [from, to)
CompletedIn(ch, from, to) ==
  Cardinality({i \in 1 .. Len(completions[ch]) :
                 completions[ch][i] >= from /\ completions[ch][i] < to})

\* ceil(a / b) for a >= 0, b > 0
CeilDiv(a, b) == (a + b - 1) \div b

\* C2: waitForToken debits a token only when one is available, so the token
\* count of a limiter is never negative after an acquire.
C2_TokensNeverNegative ==
  \A ch \in Channels : tokens[rateLimiters(ch)] >= 0

\* C3: no over-admission: in any time window of length W the number of
\* completed waitForToken calls on one channel is at most
\* capacity + tokensPerInterval * ceil(W / intervalInMs).
C3_NoOverAdmission ==
  \A ch \in Channels : \A from \in 0 .. MaxTime : \A W \in 1 .. MaxTime + 1 :
    LET b == rateLimiters(ch)
    IN  CompletedIn(ch, from, from + W)
          <= tokensPerInterval[b] + tokensPerInterval[b] * CeilDiv(W, intervalInMs[b])

\* C4: the refill-check-debit sequence of one waitForToken call is a single
\* critical section: while a caller is suspended between its check and its
\* debit, no other caller's refill, check or debit runs on the same channel.
C4_CriticalSection ==
  [][\A c \in Callers :
       (pc[c] = "waiting" /\ pc'[c] = "waiting")
         => \A d \in Callers \ {c} :
              (pc'[d] # pc[d]) => chan'[d] # chan[c]]_vars

\* C8: in every reachable state of a RateLimiter, tokens <= capacity (the
\* constructor's tokensPerInterval).
C8_TokensAtMostCapacity ==
  \A ch \in Channels : tokens[rateLimiters(ch)] <= tokensPerInterval[rateLimiters(ch)]

\* C8 witness: the first call on a full bucket came after a whole interval, so
\* the refill had tokens to add and the cap cut them off before the debit.
C8_Witness ==
  \E ch \in Channels :
    /\ lastRefill[ch] > 0
    /\ Len(completions[ch]) = 1
    /\ tokens[ch] = tokensPerInterval[ch] - 1

\* C10: channels are independent: a waitForToken call on one channel (its
\* refill, its suspension and its debit) leaves the other channel's tokens and
\* lastRefill unchanged, and a call is suspended only when its own channel's
\* bucket holds less than one token after the refill.
C10_ChannelsIndependent ==
  [][\A c \in Callers :
       (pc'[c] # pc[c] /\ chan'[c] \in Channels)
         => LET ch == chan'[c]
            IN  /\ \A o \in Channels \ {ch} :
                     tokens'[o] = tokens[o] /\ lastRefill'[o] = lastRefill[o]
                /\ (pc[c] # "waiting" /\ pc'[c] = "waiting")
                     => refillTokens(tokens[ch], lastRefill[ch], tokensPerInterval[ch],
                                     intervalInMs[ch], now).tokens < 1]_vars

\* C10 witness: a caller is suspended on the exhausted chatCompletions bucket
\* and a search call made at that time has returned without waiting.
C10_Witness ==
  \E c, d \in Callers :
    /\ pc[c] = "waiting" /\ chan[c] = "chatCompletions"
    /\ tokens["chatCompletions"] < 1
    /\ pc[d] = "acquired" /\ chan[d] = "search"
    /\ Len(completions["search"]) = 1
    /\ completions["search"][1] = now
    /\ wakeAt[c] > now
    /\ wakeAt[c] - waitTime("chatCompletions") < now

----------------------------------------------------------------------------
(* Claims about findSimilarAnswers, checked under Spec *)

\* a findSimilarAnswers invocation that has returned to its caller
Returned(c) == pc[c] = "returned" /\ kind[c] = "find"

\* C1: findSimilarAnswers always returns a list of between 1 and 3 answers,
\* whatever the providers responded.
C1_BetweenOneAndThree ==
  \A c \in Callers :
    Returned(c) => Len(inv[c].out.result) >= 1 /\ Len(inv[c].out.result) <= 3

\* C5: findSimilarAnswers never throws to its caller: whatever the providers
\* responded, no exception leaves it and it returns a non-empty answer list.
C5_NeverThrows ==
  \A c \in Callers :
    Returned(c) => ~inv[c].out.threw /\ Len(inv[c].out.result) >= 1

\* C5: an invocation in which scoring raised a TypeError, caught by the outer
\* catch block.
C5_Witness ==
  \E c \in Callers :
    /\ Returned(c)
    /\ inv[c].out.path = "caught"
    /\ inv[c].out.result = <<Canonical>>

\* the causes of a degraded outcome, read from what the providers responded
TransportFailed(c) == inv[c].transport # "ok"
Unparseable(c) ==
  /\ sanitizeJsonResponse(ensureAzureResponse(inv[c].answer)) = FallbackText
  /\ (~IsDef(inv[c].searchResults) \/ Val(inv[c].searchResults) = <<>>)
NotANonEmptyArray(c) ==
  LET parsed == normalize(ensureAzureResponse(inv[c].answer))
  IN  ~parsed.ok \/ ~parsed.isArray \/ parsed.elems = <<>>
NoneKept(c) == inv[c].out.kept = <<>>

\* C6: every degraded outcome (transport error, unparseable text, parsed value
\* not an array, empty array, no candidate passing the filter) returns the same
\* one-element list holding the canonical no-result answer, never an empty list.
C6_DegradedIsCanonical ==
  \A c \in Callers :
    Returned(c) =>
      /\ inv[c].out.result # <<>>
      /\ (TransportFailed(c) \/ Unparseable(c) \/ NotANonEmptyArray(c) \/ NoneKept(c))
           => inv[c].out.result = <<Canonical>>

\* C6: the providers answered, the completion held candidates, and none of
\* them passed the confidence filter.
C6_Witness ==
  \E c \in Callers :
    /\ Returned(c)
    /\ ~TransportFailed(c)
    /\ inv[c].out.path = "none_kept"
    /\ Len(inv[c].out.scored) > 0
    /\ inv[c].out.result = <<Canonical>>

\* C7: a scored candidate is kept if and only if its score on the 0-20 scale
\* is at least 9.0 (score/20 >= 0.45), so that no candidate scored below 9.0 is
\* returned.
C7_KeptIffAtLeastNine ==
  \A c \in Callers :
    (Returned(c) /\ inv[c].out.path \in {"answers", "none_kept"}) =>
      inv[c].out.kept =
        SelectSeq(inv[c].out.scored,
                  LAMBDA el : Val(el.score) >= ConfidenceThreshold * ScoreScale)

\* C9 as stated: for any completion text the normalization step yields a
\* non-empty array of candidates and never raises.
C9_NonEmptyArray ==
  \A c \in Callers :
    (Returned(c) /\ IsDef(inv[c].parsedAnswers)) =>
      LET parsed == Val(inv[c].parsedAnswers)
      IN  parsed.ok /\ parsed.isArray /\ parsed.elems # <<>>

\* C9, amended: for any completion text the normalization step never raises.
\* A text that is valid JSON (after the extraction of a bracketed array) yields
\* its value as it is, and a text that the escaping of the quotes inside HTML
\* tags makes valid yields the value of the escaped text: either may be an
\* empty array or a value that is not an array. Every other text yields a
\* non-empty array of candidates.
C9_NormalizationTotal ==
  \A c \in Callers :
    (Returned(c) /\ IsDef(inv[c].parsedAnswers)) =>
      LET text == jsonArrayMatch(ensureAzureResponse(inv[c].answer))
          parsed == Val(inv[c].parsedAnswers)
      IN  /\ parsed.ok
          /\ IF JSONvalid(text) THEN parsed = JSONparse(text)
             ELSE IF text.shape \in {"esc_array", "esc_value"}
               THEN /\ parsed.isArray <=> text.shape = "esc_array"
                    /\ parsed.elems = text.elems
             ELSE parsed.isArray /\ parsed.elems # <<>>

\* C9: a completion that is not valid JSON was normalized to an array of one
\* candidate.
C9_Witness ==
  \E c \in Callers :
    /\ Returned(c)
    /\ IsDef(inv[c].parsedAnswers)
    /\ ~JSONvalid(jsonArrayMatch(ensureAzureResponse(inv[c].answer)))
    /\ Val(inv[c].parsedAnswers).isArray
    /\ Len(Val(inv[c].parsedAnswers).elems) = 1

\* C11: the answers returned are the first (at most 3) candidates that pass
\* the filter, in the order the provider emitted them.
C11_FirstThreeInOrder ==
  \A c \in Callers :
    (Returned(c) /\ inv[c].out.path = "answers") =>
      LET kept == SelectSeq(inv[c].out.scored, passesFilter)
      IN  inv[c].out.result =
            [i \in 1 .. Min(3, Len(kept)) |-> toSimilarAnswer(kept[i])]

\* C12: after scoring, every candidate's score lies on the 0-20 scale,
\* whichever rule set it.
C12_ScoreOnScale ==
  \A c \in Callers :
    Returned(c) =>
      \A i \in 1 .. Len(inv[c].out.scored) :
        /\ Val(inv[c].out.scored[i].score) >= 0
        /\ Val(inv[c].out.scored[i].score) <= 20 * 100

\* C13 (Scenario C): for the completion "I don't know" and 2 hits with provider
\* scores 7.5 and 3.2, normalization yields the canonical candidate, 2
\* candidates are made from the hits and exactly one answer is returned.
C13_ScenarioC ==
  \A c \in Callers :
    (/\ Returned(c)
     /\ inv[c].answer = Some(IDontKnow)
     /\ inv[c].searchResults = Some(<<H_high, H_mid>>)) =>
      /\ sanitizeJsonResponse(IDontKnow) = FallbackText
      /\ Len(inv[c].out.parsed) = 2
      /\ Len(inv[c].out.result) = 1

\* C15 (Scenario D): for the out-of-domain query "What is the best stock to
\* buy?" findSimilarAnswers returns the canonical no-result answer, whatever
\* candidates the provider returns.
C15_ScenarioD ==
  \A c \in Callers :
    (Returned(c) /\ inv[c].question = StockQuery) =>
      inv[c].out.result = <<Canonical>>

\* the question rule as the claim words it, on the candidate's question as the
\* provider gave it: 1900 for a match, 1800 for a match of the first 20
\* characters, 0 otherwise
StatedQuestionScore(el, query) ==
  LET q == toLowerCase(Val(el.question))
      p == toLowerCase(query)
  IN  IF q = p \/ strIncludes(join(q), join(p)) \/ strIncludes(join(p), join(q))
      THEN 1900
      ELSE IF \/ strIncludes(join(q), SubSeq(join(p), 1, Min(20, Len(join(p)))))
              \/ strIncludes(join(p), SubSeq(join(q), 1, Min(20, Len(join(q)))))
      THEN 1800
      ELSE 0

\* the scored candidates of an invocation that reached the filter
ScoredIn(c) ==
  IF Returned(c) /\ inv[c].out.path \in {"answers", "none_kept"}
  THEN {inv[c].out.scored[i] : i \in 1 .. Len(inv[c].out.scored)}
  ELSE {}

ThresholdStep == 5
Thresholds == {ThresholdStep * t : t \in 0 .. (100 \div ThresholdStep)}

\* the number of answers the invocation returns when the filter uses the given
\* threshold, the canonical answer counting as one
AnswersAt(c, threshold) ==
  IF inv[c].out.path \in {"answers", "none_kept"}
  THEN LET kept == SelectSeq(inv[c].out.scored, LAMBDA el : passesFilterAt(el, threshold))
       IN  IF Len(kept) = 0 THEN 1 ELSE Len(kept)
  ELSE Len(inv[c].out.result)

\* C17: for a fixed query, completion and hits, raising the confidence
\* threshold never increases the number of answers returned: the count at each
\* threshold is at most the count at the threshold one step below it, hence at
\* most the count at every lower threshold.
C17_ThresholdMonotone ==
  \A c \in Callers :
    Returned(c) =>
      /\ AnswersAt(c, ConfidenceThreshold) = Len(inv[c].out.result)
      /\ \A t \in Thresholds :
           (t + ThresholdStep) \in Thresholds =>
             AnswersAt(c, t + ThresholdStep) <= AnswersAt(c, t)

\* C17: an invocation whose number of answers goes down when the threshold is
\* raised above the one it ran with.
C17_Witness ==
  \E c \in Callers :
    /\ Returned(c)
    /\ Len(inv[c].out.result) > 1
    /\ \E t \in Thresholds :
         t > ConfidenceThreshold /\ AnswersAt(c, t) < Len(inv[c].out.result)

\* C18 (Scenario B): for prose-wrapped malformed JSON holding one
\* question/answer pair with unescaped quotes in the answer, normalization
\* parses successfully into one candidate carrying the pair's question and
\* answer text, not the canonical fallback.
C18_ScenarioB ==
  \A c \in Callers :
    (Returned(c) /\ inv[c].answer = Some(MalformedPairs)) =>
      /\ sanitizeJsonResponse(MalformedPairs) # FallbackText
      /\ IsDef(inv[c].parsedAnswers)
      /\ LET parsedAnswers == Val(inv[c].parsedAnswers)
         IN  /\ parsedAnswers.ok /\ parsedAnswers.isArray
             /\ Len(parsedAnswers.elems) = 1
             /\ parsedAnswers.elems[1].question = Some(QuotedPair.question)
             /\ parsedAnswers.elems[1].answer = Some(QuotedPair.answer)

\* the request body postSimilar2Drupal has been given
Posting(c) == pc[c] \in {"posting", "posted"}

\* C19: the list posted by /api/find-similar has 1 to 3 entries, each taken in
\* order from the list findSimilarAnswers returned, and exactly one entry when
\* the first returned answer is the canonical no-result; the list the handler
\* cuts is the one findSimilarAnswers returned.
C19_PostsFinalAnswers ==
  /\ [](\A c \in Callers :
          Posting(c) =>
            LET posted == inv[c].similar2Post
                similarAnswers == inv[c].similarAnswers
            IN  /\ Len(posted) \in 1 .. 3
                /\ Len(posted) <= Len(similarAnswers)
                /\ posted = SubSeq(similarAnswers, 1, Len(posted))
                /\ (similarAnswers[1] = Canonical => Len(posted) = 1))
  /\ [][\A c \in Callers :
          (Returned(c) /\ Posting(c)') =>
            inv'[c].similarAnswers = inv[c].out.result]_vars

\* C19: a list of 4 answers was returned and its first 3 were posted.
C19_Witness ==
  \E c \in Callers :
    /\ pc[c] = "posted"
    /\ Len(inv[c].similarAnswers) = 4
    /\ Len(inv[c].similar2Post) = 3

\* how far an invocation of findSimilarAnswers has come: before the search
\* request, the search request sent, before the completion request, the
\* completion request sent, returned
Progress(c) ==
  CASE pc[c] \in {"absent", "idle"} -> 0
    [] pc[c] = "waiting" /\ chan[c] = "search" -> 1
    [] pc[c] = "search_inflight" -> 2
    [] pc[c] = "waiting" /\ chan[c] # "search" -> 3
    [] pc[c] = "chat_inflight" -> 4
    [] OTHER -> 5

\* C20: when the retrieval call or the completion call fails,
\* findSimilarAnswers returns the canonical no-result answer in the step that
\* receives the failure, and an invocation sends each of the two requests at
\* most once: it never goes back to a request it has sent.
C20_FailureIsCanonicalNoRetry ==
  /\ [](\A c \in Finders :
          (Returned(c) /\ TransportFailed(c)) =>
            /\ inv[c].out.result = <<Canonical>>
            /\ inv[c].out.path = "error_text")
  /\ [][\A c \in Finders :
          /\ Progress(c)' >= Progress(c)
          /\ (pc[c] # "search_inflight" /\ pc'[c] = "search_inflight") => Progress(c) < 2
          /\ (pc[c] # "chat_inflight" /\ pc'[c] = "chat_inflight") => Progress(c) \in {2, 3}
          /\ (pc[c] = "search_inflight" /\ Progress(c)' = 5) =>
               (Returned(c)' /\ inv'[c].transport = "search_failed")
          /\ (pc[c] = "chat_inflight" /\ pc'[c] # "chat_inflight") => Returned(c)']_vars

\* C20: the completion call failed after a search that found hits, and the
\* canonical answer was returned.
C20_Witness ==
  \E c \in Finders :
    /\ Returned(c)
    /\ inv[c].transport = "chat_failed"
    /\ IsDef(inv[c].searchResults) /\ Val(inv[c].searchResults) # <<>>
    /\ inv[c].out.result = <<Canonical>>

\* an element of the parsed array that lacks a non-empty question or answer
LacksField(el) == ~Truthy(el.question) \/ ~Truthy(el.answer)

\* C21: when the parsed array holds an element without a non-empty question
\* or answer, processing is not aborted, every candidate reaches the
\* confidence filter, and a kept element appears with the placeholder text.
C21_PlaceholderKept ==
  \A c \in Callers :
    (/\ Returned(c)
     /\ IsDef(inv[c].parsedAnswers)
     /\ Val(inv[c].parsedAnswers).ok /\ Val(inv[c].parsedAnswers).isArray
     /\ \A i \in 1 .. Len(Val(inv[c].parsedAnswers).elems) :
          Val(inv[c].parsedAnswers).elems[i].type = "object"
     /\ \E i \in 1 .. Len(Val(inv[c].parsedAnswers).elems) :
          LacksField(Val(inv[c].parsedAnswers).elems[i])) =>
      /\ inv[c].out.path \in {"answers", "none_kept"}
      /\ Len(inv[c].out.scored) = Len(Val(inv[c].parsedAnswers).elems)
      /\ \A i \in 1 .. Len(inv[c].out.kept) :
           inv[c].out.path = "answers" =>
             /\ ~Truthy(inv[c].out.kept[i].question) =>
                  inv[c].out.result[i].question = QuestionNotAvailable
             /\ ~Truthy(inv[c].out.kept[i].answer) =>
                  inv[c].out.result[i].answer = AnswerNotAvailable

\* the invocation reached the fallback-from-hits test with this array
ReachedFallbackTest(c) ==
  /\ Returned(c)
  /\ IsDef(inv[c].parsedAnswers)
  /\ Val(inv[c].parsedAnswers).ok /\ Val(inv[c].parsedAnswers).isArray
  /\ \A i \in 1 .. Len(Val(inv[c].parsedAnswers).elems) :
       Val(inv[c].parsedAnswers).elems[i].type = "object"

\* the hits retrieval returned to the invocation
HitsOf(c) == IF IsDef(inv[c].searchResults) THEN Val(inv[c].searchResults) ELSE <<>>

\* the parsed result is the single canonical candidate and there is a hit
UsesHits(c) ==
  LET elems == Val(inv[c].parsedAnswers).elems
  IN  /\ Len(elems) = 1
      /\ elems[1].question = Some(CanonicalQuestion)
      /\ Len(HitsOf(c)) > 0

\* what the fallback does with the scores and the filter: candidate i is
\* scored 20 * min(providerScore / 5, 0.95) and the same filter is applied
HitsScoredAndFiltered(c) ==
  /\ Len(inv[c].out.parsed) = Len(HitsOf(c))
  /\ Len(inv[c].out.scored) = Len(HitsOf(c))
  /\ \A i \in 1 .. Len(HitsOf(c)) :
       inv[c].out.scored[i].score =
         Some(ScoreScale * Min(hitScore(HitsOf(c)[i]) \div HitScoreDivisor, HitScoreCap))
  /\ inv[c].out.kept = SelectSeq(inv[c].out.scored, passesFilter)

\* C22: exactly when the parsed result is the single canonical candidate and
\* there is at least one hit, the candidates become one per hit, in hit order,
\* with question = hit title and answer = hit content, scored
\* 20 * min(providerScore / 5, 0.95) and filtered as usual; otherwise the
\* parsed candidates are left as they are.
C22_FallbackFromHits ==
  \A c \in Callers :
    ReachedFallbackTest(c) =>
      IF UsesHits(c)
      THEN /\ HitsScoredAndFiltered(c)
           /\ \A i \in 1 .. Len(HitsOf(c)) :
                /\ inv[c].out.parsed[i].question = HitsOf(c)[i].title
                /\ inv[c].out.parsed[i].answer = HitsOf(c)[i].content
      ELSE inv[c].out.parsed = Val(inv[c].parsedAnswers).elems

\* C22, amended: as above, with the question of candidate i being the hit's
\* title or, when the hit has no title, "Search Result i", and the answer being
\* the hit's content or, when it has none, the empty string.
C22_FallbackFromHitsAmended ==
  \A c \in Callers :
    ReachedFallbackTest(c) =>
      IF UsesHits(c)
      THEN /\ HitsScoredAndFiltered(c)
           /\ \A i \in 1 .. Len(HitsOf(c)) :
                /\ inv[c].out.parsed[i].question =
                     IF Truthy(HitsOf(c)[i].title) THEN HitsOf(c)[i].title
                     ELSE Some(<<"Search", "Result", ToString(i)>>)
                /\ inv[c].out.parsed[i].answer =
                     IF Truthy(HitsOf(c)[i].content) THEN HitsOf(c)[i].content
                     ELSE Some(<<>>)
      ELSE inv[c].out.parsed = Val(inv[c].parsedAnswers).elems

\* C22: the completion gave no candidates, two hits were returned, the second
\* without a title, and both became returned answers.
C22_Witness ==
  \E c \in Callers :
    /\ ReachedFallbackTest(c)
    /\ UsesHits(c)
    /\ HitsOf(c) = <<H_high, H_reranked>>
    /\ inv[c].out.path = "answers"
    /\ Len(inv[c].out.result) = 2

\* the invocation scored every candidate of its list
ScoredAll(c) == Returned(c) /\ inv[c].out.path \in {"answers", "none_kept"}

\* C23: the first matching rule wins for every candidate: one with an explicit
\* relevanceScore r is scored 20 * r; otherwise one matched by the question
\* rule keeps that rule's score; otherwise one matched by the hit-content
\* rule keeps the score of the hit.
C23_FirstRuleWins ==
  \A c \in Callers :
    ScoredAll(c) =>
      \A i \in 1 .. Len(inv[c].out.scored) :
        LET el == inv[c].out.parsed[i]
            score == inv[c].out.scored[i].score
        IN  IF IsDef(el.relevanceScore)
              THEN score = Some(ScoreScale * Val(el.relevanceScore))
            ELSE IF questionMatchScore(el, inv[c].question) > 0
              THEN score = Some(questionMatchScore(el, inv[c].question))
            ELSE contentMatches(el, HitsOf(c)) # {} =>
                   score = Some(lastMatchingScore(el, HitsOf(c)))

\* C23: a candidate without relevanceScore that the question rule and the
\* hit-content rule both match, the hit's score differing from the question
\* rule's, was scored by the question rule.
C23_Witness ==
  \E c \in Callers :
    /\ ScoredAll(c)
    /\ \E i \in 1 .. Len(inv[c].out.scored) :
         LET el == inv[c].out.parsed[i]
         IN  /\ ~IsDef(el.relevanceScore)
             /\ questionMatchScore(el, inv[c].question) > 0
             /\ contentMatches(el, HitsOf(c)) # {}
             /\ lastMatchingScore(el, HitsOf(c)) # questionMatchScore(el, inv[c].question)
             /\ inv[c].out.scored[i].score = Some(questionMatchScore(el, inv[c].question))

\* candidate el reaches the domain heuristic: no earlier rule matches it
ReachesDomainRule(el, question, results) ==
  /\ el.type = "object"
  /\ ~IsDef(el.relevanceScore)
  /\ questionMatchScore(el, question) = 0
  /\ contentMatches(el, results) = {}

\* the candidate's text and the query both hold one of the topical keywords
SharesKeywords(el, question) ==
  /\ hasKeyword(toLowerCase(question))
  /\ \/ Truthy(el.question) /\ hasKeyword(toLowerCase(Val(el.question)))
     \/ Truthy(el.answer) /\ hasKeyword(toLowerCase(Val(el.answer)))

\* C24: every candidate that reaches the domain heuristic is scored 5 when
\* the query's domainRelevance is below 0.3, otherwise 16 when it shares
\* topical keywords with the query, otherwise 10; it has no other score.
C24_ThreeDomainScores ==
  \A c \in Callers :
    ScoredAll(c) =>
      \A i \in 1 .. Len(inv[c].out.scored) :
        ReachesDomainRule(inv[c].out.parsed[i], inv[c].question, HitsOf(c)) =>
          inv[c].out.scored[i].score =
            Some(IF lowDomainRelevance(inv[c].question) THEN 500
                 ELSE IF SharesKeywords(inv[c].out.parsed[i], inv[c].question) THEN 1600
                 ELSE 1000)

\* the waitForToken calls on channel ch that return in the step
ReturnsIn(ch) == Len(completions'[ch]) - Len(completions[ch])

\* C25: a step in which a waitForToken call returns leaves the bucket one
\* token below what refillTokens made of it; every other step leaves the count
\* as it was or as refillTokens made it; and the step in which a provider
\* request fails changes no bucket, so the token it consumed is not given back.
C25_DebitOneNoRefund ==
  [][/\ \A ch \in Channels :
          /\ ReturnsIn(ch) \in {0, 1}
          /\ ReturnsIn(ch) = 1 => tokens'[rateLimiters(ch)] = Refilled(rateLimiters(ch)).tokens - 1
          /\ ReturnsIn(ch) = 0 =>
               tokens'[rateLimiters(ch)] \in {tokens[rateLimiters(ch)],
                                              Refilled(rateLimiters(ch)).tokens}
     /\ \A c \in Callers :
          (pc[c] \in {"search_inflight", "chat_inflight"} /\ Returned(c)') =>
            tokens' = tokens]_vars

\* C25: the completion request of an invocation failed and the token taken
\* for it is still missing from the chatCompletions bucket.
C25_Witness ==
  \E c \in Callers :
    /\ Returned(c)
    /\ inv[c].transport = "chat_failed"
    /\ tokens[rateLimiters("chatCompletions")] < tokensPerInterval[rateLimiters("chatCompletions")]

\* the positions an invocation may be in one step after position p
Successors(p) ==
  CASE p = 0 -> {0, 1, 2}
    [] p = 1 -> {1, 2}
    [] p = 2 -> {2, 3, 4, 5}
    [] p = 3 -> {3, 4}
    [] p = 4 -> {4, 5}
    [] OTHER -> {5}

\* C26: the steps of one invocation are strictly ordered: the retrieval
\* request is sent once the search acquire has completed, the chatCompletions
\* acquire starts once the retrieval response is there, the completion request
\* is sent once that acquire has completed, normalization runs on the
\* completion received, scoring on what normalization produced, and the result
\* is returned after scoring.
C26_StepsOrdered ==
  /\ [](\A c \in Finders :
          /\ pc[c] = "search_inflight" =>
               (kind[c] = "find" /\ Len(completions["search"]) > 0)
          /\ Progress(c) \in {3, 4} => IsDef(inv[c].searchResults)
          /\ pc[c] = "chat_inflight" => Len(completions["chatCompletions"]) > 0
          /\ Returned(c) =>
               /\ IsDef(inv[c].parsedAnswers) =>
                    (/\ inv[c].transport = "ok"
                     /\ IsDef(inv[c].answer)
                     /\ Val(inv[c].parsedAnswers) = normalize(ensureAzureResponse(inv[c].answer)))
               /\ inv[c].out.scored # <<>> =>
                    (/\ IsDef(inv[c].parsedAnswers)
                     /\ Val(inv[c].parsedAnswers).ok
                     /\ inv[c].out =
                          scoreAndFilter(Val(inv[c].parsedAnswers).elems,
                                         inv[c].question, inv[c].searchResults))
               /\ inv[c].out.path = "answers" =>
                    inv[c].out.result =
                      [i \in 1 .. Len(inv[c].out.kept) |-> toSimilarAnswer(inv[c].out.kept[i])])
  /\ [][\A c \in Finders : Progress(c)' \in Successors(Progress(c))]_vars

\* C26: an invocation that was suspended in an acquire went through every
\* step and returned scored answers.
C26_Witness ==
  \E c \in Finders :
    /\ Returned(c)
    /\ wakeAt[c] > 0
    /\ inv[c].transport = "ok"
    /\ inv[c].out.path = "answers"
    /\ Len(inv[c].out.result) > 1

\* the bare provider calls that have taken a token of channel ch
RawAcquired(ch) == {d \in Callers : kind[d] = "raw" /\ chan[d] = ch /\ pc[d] = "acquired"}

\* C29: when the retrieval call of an invocation fails, the invocation
\* returns in that step without a completion request: the step changes no
\* bucket, and afterwards every token taken from the chatCompletions bucket was
\* taken by another caller, the invocation having debited the search bucket
\* only, once.
C29_SearchFailureSparesChat ==
  /\ [][\A c \in Finders :
          (/\ pc[c] = "search_inflight"
           /\ pc'[c] # "search_inflight"
           /\ ~IsDef(inv'[c].searchResults)) =>
            /\ Returned(c)'
            /\ inv'[c].transport = "search_failed"
            /\ tokens' = tokens /\ lastRefill' = lastRefill
            /\ completions' = completions]_vars
  /\ [](\A c \in Finders :
          (Returned(c) /\ inv[c].transport = "search_failed") =>
            /\ Len(completions["chatCompletions"]) = Cardinality(RawAcquired("chatCompletions"))
            /\ Len(completions["search"]) = Cardinality(RawAcquired("search")) + 1)

\* C29: the retrieval call failed while another caller had taken the token of
\* the search bucket first, so the invocation had waited for its own.
C29_Witness ==
  \E c \in Finders :
    /\ Returned(c)
    /\ inv[c].transport = "search_failed"
    /\ Len(completions["search"]) = 2
    /\ tokens["chatCompletions"] = tokensPerInterval["chatCompletions"]

\* the text findSimilarAnswers looks at holds one of the error markers
HasErrorMarker(c) ==
  LET text == ensureAzureResponse(inv[c].answer)
  IN  \/ textIncludes(text, "error")
      \/ textIncludes(text, "Cannot read properties")
      \/ textStartsWith(text, "Error:")

\* C30: whenever the completion text contains "error" or "Cannot read
\* properties", or starts with "Error:", the canonical no-result answer is
\* returned and nothing is normalized or scored, be the text a valid array of
\* candidates and be there hits.
C30_ErrorTextIsCanonical ==
  \A c \in Callers :
    (Returned(c) /\ HasErrorMarker(c)) =>
      /\ inv[c].out.result = <<Canonical>>
      /\ inv[c].out.path = "error_text"
      /\ ~IsDef(inv[c].parsedAnswers)
      /\ inv[c].out.parsed = <<>>
      /\ inv[c].out.scored = <<>>

\* C30: the completion was a valid array of one candidate with relevanceScore
\* 0.9 whose answer holds the word "error", hits were returned, and the
\* canonical answer came back.
C30_Witness ==
  \E c \in Callers :
    /\ Returned(c)
    /\ inv[c].transport = "ok"
    /\ inv[c].answer = Some(ArrayText(<<E_errorWord>>))
    /\ HitsOf(c) # <<>>
    /\ inv[c].out.result = <<Canonical>>

----------------------------------------------------------------------------
(* Claims about Scenario E, checked under SpecScenarioE *)

\* C14 (Scenario E): with capacity 5 refilled 5 per 1000 ms, the 10 calls made
\* back to back all complete, and the 6th completes at least 1000/5 = 200 ms
\* (one unit of time) after the 5th.
C14_ScenarioE ==
  /\ [](LET done == completions["chatCompletions"]
        IN  Len(done) > ScenarioCapacity =>
              done[ScenarioCapacity + 1] - done[ScenarioCapacity]
                >= intervalInMs["chatCompletions"] \div tokensPerInterval["chatCompletions"])
  /\ <>(Len(completions["chatCompletions"]) = ScenarioCalls)

\* C14: all the calls have completed, the first past the capacity after a wait.
C14_Witness ==
  LET done == completions["chatCompletions"]
  IN  /\ Len(done) = ScenarioCalls
      /\ done[ScenarioCapacity] = 0
      /\ done[ScenarioCapacity + 1] >= 1

\* C28: a waitForToken call that is suspended starts one timer of
\* intervalInMs / tokensPerInterval, keeps that timer while it waits, and on
\* resuming returns at once, whatever the refill added; and every suspended
\* call does return.
C28_WaitsAtMostOnce ==
  /\ [][\A c \in Callers :
          /\ (pc[c] # "waiting" /\ pc'[c] = "waiting") =>
               wakeAt'[c] = now + (intervalInMs[rateLimiters(chan'[c])]
                                     \div tokensPerInterval[rateLimiters(chan'[c])])
          /\ (pc[c] = "waiting" /\ pc'[c] = "waiting") => wakeAt'[c] = wakeAt[c]
          /\ (pc[c] = "waiting" /\ pc'[c] # "waiting") =>
               (pc'[c] = "acquired" /\ ReturnsIn(chan[c]) = 1)]_vars
  /\ \A c \in Callers : (pc[c] = "waiting") ~> (pc[c] = "acquired")

\* C28: a call returned after its suspension although the refill added no
\* token: the bucket is below zero.
C28_Witness ==
  \E c \in Callers :
    /\ pc[c] = "acquired"
    /\ wakeAt[c] > 0
    /\ tokens[rateLimiters(chan[c])] < 0

----------------------------------------------------------------------------
(* Claims about concurrent invocations, checked under SpecConcurrent *)

\* what belongs to caller c alone
Frame(c) == <<pc[c], kind[c], chan[c], wakeAt[c], inv[c]>>

\* C27: concurrent invocations are independent: a step of one invocation
\* leaves every other invocation's frame as it was, so the buckets are the
\* only state more than one invocation writes; the list an invocation returns
\* is findSimilarAnswers of its own query, its own completion and its own
\* hits; and the step that receives the completion ends with the invocation
\* returned, normalization and scoring having run without a suspension.
C27_InvocationsIndependent ==
  [][/\ \A c, d \in Callers :
          (c # d /\ Frame(c)' # Frame(c)) => Frame(d)' = Frame(d)
     /\ \A c \in Callers :
          (pc[c] = "chat_inflight" /\ pc'[c] # "chat_inflight") =>
            /\ Returned(c)'
            /\ inv'[c].question = inv[c].question
            /\ inv'[c].searchResults = inv[c].searchResults
            /\ inv'[c].out =
                 findSimilarAnswers(inv[c].question, inv'[c].answer, inv[c].searchResults)
     /\ \A c \in Callers :
          (Returned(c) /\ Returned(c)') => inv'[c] = inv[c]]_vars

\* C27: two invocations with different hits overlapped, the later one
\* returning answers while the earlier one still waits for its completion.
C27_Witness ==
  \E c, d \in Callers :
    /\ c < d
    /\ pc[c] = "chat_inflight"
    /\ Returned(d)
    /\ inv[c].searchResults # inv[d].searchResults
    /\ inv[d].out.path = "answers"

====
